---- MODULE Spec2Model ----
(***************************************************************************)
(* Model of the outreach-dashboard backend:                                *)
(*   - the email dispatcher (src/sendEmails.py), its HTTP route            *)
(*     POST /send_emails (src/archive/app.py) and the standalone script    *)
(*     src/send-emails.py;                                                 *)
(*   - the warehouse client (src/archive/snowflakeConnector.py) with its   *)
(*     process-wide connection, for calls handled one at a time and for    *)
(*     two calls running concurrently.                                     *)
(***************************************************************************)
EXTENDS Naturals, Sequences, FiniteSets

\* ------------------------------------------------------------------ bounds

\* Longest batch (JSON array, or argument sequence of send_message) explored.
MaxBatch == 3
\* Number of process_snowflake_query calls started in one behaviour.
MaxCalls == 3

\* ------------------------------------------------------------ input values

Bodies == {"", "<p>hi</p>"}
Subjects == {"", "Hi"}
Recipients == {"a@x.com", "b@x.com"}

\* A well-formed email descriptor of the POST /send_emails body.
GoodDescriptors ==
    [emailHtml : Bodies, emailSubject : Subjects, USER_EMAIL : Recipients]

\* A descriptor of the JSON body that lacks the USER_EMAIL key.
BadDescriptors == {[emailHtml |-> "<p>hi</p>", emailSubject |-> "Hi"]}

Descriptors == GoodDescriptors \cup BadDescriptors

SeqsUpTo(S, n) == UNION {[1..k -> S] : k \in 0..n}

Min(a, b) == IF a <= b THEN a ELSE b

\* ---------------------------------------------------------------- messages

BCC_ADDRESS == "6939709@bcc.hubspot.com"
SENDER == "cameron.michie@ably.com"
SCRIPT_TO == "cameron.oscar.michie@gmail.com"
SCRIPT_SUBJECT == "Hello from Python!"
SCRIPT_HTML == "<html><body><p>Hi,<br>This is a <b>test email</b>...</p></body></html>"

\* email.mime.multipart.MIMEMultipart(subtype): a container with no parts yet.
MIMEMultipart(subtype) ==
    [subtype |-> subtype, headers |-> <<>>, parts |-> <<>>]

\* message[name] = value: appends a header line (never replaces one).
SetHeader(message, name, value) ==
    [message EXCEPT !.headers = Append(@, <<name, value>>)]

\* email.mime.text.MIMEText(text, subtype): one text/<subtype> body part.
MIMEText(text, subtype) ==
    [maintype |-> "text", subtype |-> subtype, payload |-> text]

\* message.attach(part)
attach(message, part) ==
    [message EXCEPT !.parts = Append(@, part)]

\* message.as_bytes(): the header lines in order, then one section per part.
as_bytes(message) ==
    <<<<"content-type", "multipart", message.subtype>>>>
      \o [i \in 1..Len(message.headers) |->
            <<"header", message.headers[i][1], message.headers[i][2]>>]
      \o [i \in 1..Len(message.parts) |->
            <<"part", message.parts[i].maintype, message.parts[i].subtype,
              message.parts[i].payload>>]

\* base64.urlsafe_b64encode(...).decode(): an injective transport encoding.
urlsafe_b64encode(bytes) == [b64url |-> bytes]

\* The inverse used by a receiver of the transport form.
urlsafe_b64decode(text) == text.b64url

\* create_message of the dispatcher module without its blind-copy header.
create_message_nobcc(sender, to, subject, message_html) ==
    LET m0 == MIMEMultipart("alternative")
        m1 == SetHeader(m0, "to", to)
        m2 == SetHeader(m1, "from", sender)
        m3 == SetHeader(m2, "subject", subject)
        m4 == attach(m3, MIMEText(message_html, "html"))
    IN  [raw |-> urlsafe_b64encode(as_bytes(m4))]

\* create_message of src/sendEmails.py
create_message(sender, to, subject, message_html) ==
    LET m0 == MIMEMultipart("alternative")
        m1 == SetHeader(m0, "to", to)
        m2 == SetHeader(m1, "from", sender)
        m3 == SetHeader(m2, "subject", subject)
        m4 == SetHeader(m3, "bcc", BCC_ADDRESS)
        m5 == attach(m4, MIMEText(message_html, "html"))
    IN  [raw |-> urlsafe_b64encode(as_bytes(m5))]

\* create_message of the standalone script src/send-emails.py
script_create_message(sender, to, subject, message_html) ==
    LET m0 == MIMEMultipart("alternative")
        m1 == SetHeader(m0, "to", to)
        m2 == SetHeader(m1, "from", sender)
        m3 == SetHeader(m2, "subject", subject)
        m4 == attach(m3, MIMEText(message_html, "html"))
    IN  [raw |-> urlsafe_b64encode(as_bytes(m4))]

\* zip that drops a triple whose recipient already occurred earlier.
RECURSIVE zip_dedup(_, _, _)
zip_dedup(a, b, c) ==
    LET n == Min(Len(a), Min(Len(b), Len(c)))
    IN  IF n = 0 THEN <<>>
        ELSE LET rest == zip_dedup(SubSeq(a, 1, n - 1), SubSeq(b, 1, n - 1),
                                   SubSeq(c, 1, n - 1))
             IN  IF \E j \in 1..(n - 1) : c[j] = c[n]
                 THEN rest
                 ELSE Append(rest, <<a[n], b[n], c[n]>>)

\* zip(email_bodies, email_subjects, to_emails): positional triples, as many
\* as the shortest argument has.
zip(a, b, c) ==
    [i \in 1..Min(Len(a), Min(Len(b), Len(c))) |-> <<a[i], b[i], c[i]>>]

\* ------------------------------------------------------------------- state

NoMessage == [raw |-> "none"]
NoResponse == [status |-> 0, body |-> "none"]
CONFIRMATION == [messaga |-> "Emails received and processed successfully!"]
NoAttr == 0

VARIABLES
    \* --- email dispatcher, its route and the script
    caller,           \* who runs the dispatcher: "none", "http", "direct", "script"
    allEmailData,     \* request.get_json() of POST /send_emails
    email_bodies,     \* arguments of send_message
    email_subjects,
    to_emails,
    mpc,              \* position of the running call
    idx,              \* iterations of the for loop completed
    gmail,            \* calls issued to the mail provider, in order
    exc,              \* exception that left send_message / main ("none" if none)
    handler_exc,      \* exception that left the send_emails route
    response,         \* response produced by the send_emails route
    \* --- warehouse client
    snowflake_connection, \* current_app.snowflake_connection (NoAttr: no attribute)
    live,             \* connections created and not closed
    n_connects,       \* connections created so far (handles are 1..n_connects)
    n_calls,          \* process_snowflake_query calls started so far
    wpc,              \* per thread: position inside process_snowflake_query
    connection,       \* per thread: local `connection` of fetch_data_as_json
    newconn,          \* per thread: value of connect(**config) before it is stored
    caught,           \* per thread: exception caught at `except Exception as e`
    outcome,          \* per thread: what the last call gave its caller
    created_here,     \* per thread: the running call created a connection
    prev_failed,      \* the call completed last raised
    all_ok,           \* every call completed so far returned normally
    torn,             \* per thread: the handle its failure teardown closed
    last_store        \* thread that assigned current_app.snowflake_connection last

mailvars == <<caller, allEmailData, email_bodies, email_subjects, to_emails,
              mpc, idx, gmail, exc, handler_exc, response>>

whvars == <<snowflake_connection, live, n_connects, n_calls, wpc, connection,
            newconn, caught, outcome, created_here, prev_failed, all_ok,
            torn, last_store>>

vars == <<mailvars, whvars>>

Threads == {1, 2}

MailInit ==
    /\ caller = "none"
    /\ allEmailData = <<>>
    /\ email_bodies = <<>>
    /\ email_subjects = <<>>
    /\ to_emails = <<>>
    /\ mpc = "idle"
    /\ idx = 0
    /\ gmail = <<>>
    /\ exc = "none"
    /\ handler_exc = "none"
    /\ response = NoResponse

WhInit ==
    /\ snowflake_connection = NoAttr
    /\ live = {}
    /\ n_connects = 0
    /\ n_calls = 0
    /\ wpc = [t \in Threads |-> "idle"]
    /\ connection = [t \in Threads |-> NoAttr]
    /\ newconn = [t \in Threads |-> NoAttr]
    /\ caught = [t \in Threads |-> "none"]
    /\ outcome = [t \in Threads |-> "none"]
    /\ created_here = [t \in Threads |-> FALSE]
    /\ prev_failed = FALSE
    /\ all_ok = TRUE
    /\ torn = [t \in Threads |-> NoAttr]
    /\ last_store = 0

Init == MailInit /\ WhInit

\* ------------------------------------------------- email dispatcher actions

AuthEvent(ok) == [op |-> "authorize", ok |-> ok, body |-> NoMessage]
SendEvent(message, ok) == [op |-> "send", ok |-> ok, body |-> message]

\* An exception leaves the running call; under the route it leaves the route too.
Raise(kind) ==
    /\ exc' = kind
    /\ handler_exc' = IF caller = "http" THEN kind ELSE handler_exc
    /\ mpc' = "done"

\* POST /send_emails arrives: the route reads the JSON array and builds the
\* three parallel lists; a descriptor without one of the keys raises KeyError
\* before send_message is called.
send_emails ==
    /\ UNCHANGED whvars
    /\ mpc = "idle"
    /\ \E data \in SeqsUpTo(Descriptors, MaxBatch) :
         /\ allEmailData' = data
         /\ caller' = "http"
         /\ IF \A i \in 1..Len(data) : data[i] \in GoodDescriptors
            THEN /\ email_bodies' = [i \in 1..Len(data) |-> data[i].emailHtml]
                 /\ email_subjects' = [i \in 1..Len(data) |-> data[i].emailSubject]
                 /\ to_emails' = [i \in 1..Len(data) |-> data[i].USER_EMAIL]
                 /\ mpc' = "auth"
                 /\ UNCHANGED <<exc, handler_exc>>
            ELSE /\ UNCHANGED <<email_bodies, email_subjects, to_emails>>
                 /\ handler_exc' = "KeyError"
                 /\ mpc' = "done"
                 /\ UNCHANGED exc
    /\ UNCHANGED <<idx, gmail, response>>

\* send_message called by any other caller, with arbitrary argument sequences.
send_message_call ==
    /\ UNCHANGED whvars
    /\ mpc = "idle"
    /\ \E b \in SeqsUpTo(Bodies, MaxBatch), s \in SeqsUpTo(Subjects, MaxBatch),
          t \in SeqsUpTo(Recipients, MaxBatch) :
         /\ email_bodies' = b
         /\ email_subjects' = s
         /\ to_emails' = t
    /\ caller' = "direct"
    /\ mpc' = "auth"
    /\ UNCHANGED <<allEmailData, idx, gmail, exc, handler_exc, response>>

\* send_message that skips the OAuth flow when there is nothing to send.
authorize_skip_empty ==
    /\ UNCHANGED whvars
    /\ mpc = "auth"
    /\ IF zip(email_bodies, email_subjects, to_emails) = <<>>
       THEN /\ mpc' = "loop"
            /\ UNCHANGED <<gmail, exc, handler_exc>>
       ELSE \E ok \in BOOLEAN :
              /\ gmail' = Append(gmail, AuthEvent(ok))
              /\ IF ok THEN mpc' = "loop" /\ UNCHANGED <<exc, handler_exc>>
                       ELSE Raise("AuthorizationError")
    /\ UNCHANGED <<caller, allEmailData, email_bodies, email_subjects, to_emails,
                   idx, response>>

\* send_message, the OAuth flow and the service handle: one authorization,
\* which either succeeds or raises.
authorize ==
    /\ UNCHANGED whvars
    /\ mpc = "auth"
    /\ \E ok \in BOOLEAN :
         /\ gmail' = Append(gmail, AuthEvent(ok))
         /\ IF ok THEN mpc' = "loop" /\ UNCHANGED <<exc, handler_exc>>
                  ELSE Raise("AuthorizationError")
    /\ UNCHANGED <<caller, allEmailData, email_bodies, email_subjects, to_emails,
                   idx, response>>

\* A loop body that catches a failed send and goes on with the next triple.
send_next_swallow ==
    /\ UNCHANGED whvars
    /\ mpc = "loop"
    /\ idx < Len(zip(email_bodies, email_subjects, to_emails))
    /\ LET triple == zip(email_bodies, email_subjects, to_emails)[idx + 1]
           message == create_message(SENDER, triple[3], triple[2], triple[1])
       IN  \E ok \in BOOLEAN :
             /\ gmail' = Append(gmail, SendEvent(message, ok))
             /\ idx' = idx + 1
             /\ UNCHANGED <<mpc, exc, handler_exc>>
    /\ UNCHANGED <<caller, allEmailData, email_bodies, email_subjects, to_emails,
                   response>>

\* One iteration of the for loop: build the message and submit it; a failed
\* send raises out of send_message.
send_next ==
    /\ UNCHANGED whvars
    /\ mpc = "loop"
    /\ idx < Len(zip(email_bodies, email_subjects, to_emails))
    /\ LET triple == zip(email_bodies, email_subjects, to_emails)[idx + 1]
           message == create_message(SENDER, triple[3], triple[2], triple[1])
       IN  \E ok \in BOOLEAN :
             /\ gmail' = Append(gmail, SendEvent(message, ok))
             /\ IF ok THEN /\ idx' = idx + 1
                           /\ UNCHANGED <<mpc, exc, handler_exc>>
                      ELSE /\ Raise("EmailSendError")
                           /\ UNCHANGED idx
    /\ UNCHANGED <<caller, allEmailData, email_bodies, email_subjects, to_emails,
                   response>>

\* The loop is exhausted: send_message returns None.
send_message_return ==
    /\ UNCHANGED whvars
    /\ mpc = "loop"
    /\ idx = Len(zip(email_bodies, email_subjects, to_emails))
    /\ mpc' = IF caller = "http" THEN "respond" ELSE "done"
    /\ UNCHANGED <<caller, allEmailData, email_bodies, email_subjects, to_emails,
                   idx, gmail, exc, handler_exc, response>>

\* A route that answers 200 whatever became of the dispatch.
send_emails_respond_always ==
    /\ UNCHANGED whvars
    /\ caller = "http"
    /\ mpc \in {"respond", "done"}
    /\ response = NoResponse
    /\ response' = [status |-> 200, body |-> CONFIRMATION]
    /\ mpc' = "done"
    /\ UNCHANGED <<caller, allEmailData, email_bodies, email_subjects, to_emails,
                   idx, gmail, exc, handler_exc>>

\* The route's last statement: the fixed confirmation with status 200.
send_emails_respond ==
    /\ UNCHANGED whvars
    /\ caller = "http"
    /\ mpc = "respond"
    /\ response' = [status |-> 200, body |-> CONFIRMATION]
    /\ mpc' = "done"
    /\ UNCHANGED <<caller, allEmailData, email_bodies, email_subjects, to_emails,
                   idx, gmail, exc, handler_exc>>

\* The standalone script starts: main() of src/send-emails.py.
script_main ==
    /\ UNCHANGED whvars
    /\ mpc = "idle"
    /\ caller' = "script"
    /\ mpc' = "script_auth"
    /\ UNCHANGED <<allEmailData, email_bodies, email_subjects, to_emails, idx,
                   gmail, exc, handler_exc, response>>

\* main(): the OAuth flow and the service handle.
script_authorize ==
    /\ UNCHANGED whvars
    /\ mpc = "script_auth"
    /\ \E ok \in BOOLEAN :
         /\ gmail' = Append(gmail, AuthEvent(ok))
         /\ IF ok THEN mpc' = "script_send" /\ UNCHANGED <<exc, handler_exc>>
                  ELSE Raise("AuthorizationError")
    /\ UNCHANGED <<caller, allEmailData, email_bodies, email_subjects, to_emails,
                   idx, response>>

\* main(): build the fixed test message and submit it.
script_send ==
    /\ UNCHANGED whvars
    /\ mpc = "script_send"
    /\ LET message == script_create_message(SENDER, SCRIPT_TO, SCRIPT_SUBJECT,
                                            SCRIPT_HTML)
       IN  \E ok \in BOOLEAN :
             /\ gmail' = Append(gmail, SendEvent(message, ok))
             /\ IF ok THEN mpc' = "done" /\ UNCHANGED <<exc, handler_exc>>
                      ELSE Raise("EmailSendError")
    /\ UNCHANGED <<caller, allEmailData, email_bodies, email_subjects, to_emails,
                   idx, response>>

\* The call is over; the next request, call or script run starts afresh.
next_invocation ==
    /\ UNCHANGED whvars
    /\ mpc = "done"
    /\ caller' = "none"
    /\ allEmailData' = <<>>
    /\ email_bodies' = <<>>
    /\ email_subjects' = <<>>
    /\ to_emails' = <<>>
    /\ mpc' = "idle"
    /\ idx' = 0
    /\ gmail' = <<>>
    /\ exc' = "none"
    /\ handler_exc' = "none"
    /\ response' = NoResponse

\* ------------------------------------------------- warehouse client actions

\* An exception is raised inside the try block: control goes to the handler.
Fail(t, kind) ==
    /\ caught' = [caught EXCEPT ![t] = kind]
    /\ wpc' = [wpc EXCEPT ![t] = "except_close"]

\* The call ends, giving `result` ("ok" or the exception) to its caller.
Finish(t, result) ==
    /\ outcome' = [outcome EXCEPT ![t] = result]
    /\ wpc' = [wpc EXCEPT ![t] = "idle"]
    /\ prev_failed' = (result # "ok")
    /\ all_ok' = (all_ok /\ result = "ok")

\* run_script calls process_snowflake_query(): get_sql() gives the fixed
\* query text and fetch_data_as_json is entered.
process_snowflake_query(t) ==
    /\ UNCHANGED mailvars
    /\ wpc[t] = "idle"
    /\ n_calls < MaxCalls
    /\ n_calls' = n_calls + 1
    /\ wpc' = [wpc EXCEPT ![t] = "hasattr"]
    /\ connection' = [connection EXCEPT ![t] = NoAttr]
    /\ newconn' = [newconn EXCEPT ![t] = NoAttr]
    /\ caught' = [caught EXCEPT ![t] = "none"]
    /\ outcome' = [outcome EXCEPT ![t] = "none"]
    /\ created_here' = [created_here EXCEPT ![t] = FALSE]
    /\ torn' = [torn EXCEPT ![t] = NoAttr]
    /\ UNCHANGED <<snowflake_connection, live, n_connects, prev_failed, all_ok,
                   last_store>>

\* A get_snowflake_connection that connects whether or not a handle exists.
hasattr_always_connect(t) ==
    /\ UNCHANGED mailvars
    /\ wpc[t] = "hasattr"
    /\ wpc' = [wpc EXCEPT ![t] = "connect"]
    /\ UNCHANGED <<snowflake_connection, live, n_connects, n_calls, connection,
                   newconn, caught, outcome, created_here, prev_failed, all_ok,
                   torn, last_store>>

\* get_snowflake_connection: `if not hasattr(current_app, ...)`.
hasattr_check(t) ==
    /\ UNCHANGED mailvars
    /\ wpc[t] = "hasattr"
    /\ wpc' = [wpc EXCEPT ![t] =
                 IF snowflake_connection = NoAttr THEN "connect" ELSE "load"]
    /\ UNCHANGED <<snowflake_connection, live, n_connects, n_calls, connection,
                   newconn, caught, outcome, created_here, prev_failed, all_ok,
                   torn, last_store>>

\* get_snowflake_connection: snowflake.connector.connect(**config), which
\* gives a new open connection or raises.
connect(t) ==
    /\ UNCHANGED mailvars
    /\ wpc[t] = "connect"
    /\ \E ok \in BOOLEAN :
         IF ok
         THEN /\ n_connects' = n_connects + 1
              /\ live' = live \cup {n_connects + 1}
              /\ newconn' = [newconn EXCEPT ![t] = n_connects + 1]
              /\ created_here' = [created_here EXCEPT ![t] = TRUE]
              /\ wpc' = [wpc EXCEPT ![t] = "store"]
              /\ UNCHANGED caught
         ELSE /\ Fail(t, "ConnectError")
              /\ UNCHANGED <<n_connects, live, newconn, created_here>>
    /\ UNCHANGED <<snowflake_connection, n_calls, connection, outcome,
                   prev_failed, all_ok, torn, last_store>>

\* A store that leaves an attribute some other call has set meanwhile.
store_if_absent(t) ==
    /\ UNCHANGED mailvars
    /\ wpc[t] = "store"
    /\ snowflake_connection' =
         IF snowflake_connection = NoAttr THEN newconn[t]
                                          ELSE snowflake_connection
    /\ last_store' = t
    /\ wpc' = [wpc EXCEPT ![t] = "load"]
    /\ UNCHANGED <<live, n_connects, n_calls, connection, newconn, caught,
                   outcome, created_here, prev_failed, all_ok, torn>>

\* get_snowflake_connection: `current_app.snowflake_connection = <new handle>`,
\* whatever the attribute held.
store(t) ==
    /\ UNCHANGED mailvars
    /\ wpc[t] = "store"
    /\ snowflake_connection' = newconn[t]
    /\ last_store' = t
    /\ wpc' = [wpc EXCEPT ![t] = "load"]
    /\ UNCHANGED <<live, n_connects, n_calls, connection, newconn, caught,
                   outcome, created_here, prev_failed, all_ok, torn>>

\* get_snowflake_connection: `return current_app.snowflake_connection`, bound
\* to `connection` in fetch_data_as_json; AttributeError if the attribute is
\* gone by now.
load(t) ==
    /\ UNCHANGED mailvars
    /\ wpc[t] = "load"
    /\ IF snowflake_connection = NoAttr
       THEN /\ Fail(t, "AttributeError@20")
            /\ UNCHANGED connection
       ELSE /\ connection' = [connection EXCEPT ![t] = snowflake_connection]
            /\ wpc' = [wpc EXCEPT ![t] = "execute"]
            /\ UNCHANGED caught
    /\ UNCHANGED <<snowflake_connection, live, n_connects, n_calls, newconn,
                   outcome, created_here, prev_failed, all_ok, torn, last_store>>

\* fetch_data_as_json: connection.cursor() and cursor.execute(sql_query); the
\* warehouse may reject the statement, and a closed connection always does.
execute(t) ==
    /\ UNCHANGED mailvars
    /\ wpc[t] = "execute"
    /\ \E ok \in BOOLEAN :
         IF ok /\ connection[t] \in live
         THEN wpc' = [wpc EXCEPT ![t] = "fetch"] /\ UNCHANGED caught
         ELSE Fail(t, "QueryExecutionError")
    /\ UNCHANGED <<snowflake_connection, live, n_connects, n_calls, connection,
                   newconn, outcome, created_here, prev_failed, all_ok, torn,
                   last_store>>

\* fetch_data_as_json: cursor.fetch_pandas_all().to_json(orient='index').
fetch(t) ==
    /\ UNCHANGED mailvars
    /\ wpc[t] = "fetch"
    /\ \E ok \in BOOLEAN :
         IF ok
         THEN wpc' = [wpc EXCEPT ![t] = "parse"] /\ UNCHANGED caught
         ELSE Fail(t, "FetchError")
    /\ UNCHANGED <<snowflake_connection, live, n_connects, n_calls, connection,
                   newconn, outcome, created_here, prev_failed, all_ok, torn,
                   last_store>>

\* process_snowflake_query: json.loads, the print, and `return parsed_data`.
parse_and_return(t) ==
    /\ UNCHANGED mailvars
    /\ wpc[t] = "parse"
    /\ \E ok \in BOOLEAN :
         IF ok
         THEN Finish(t, "ok") /\ UNCHANGED caught
         ELSE Fail(t, "JSONDecodeError") /\ UNCHANGED <<outcome, prev_failed, all_ok>>
    /\ UNCHANGED <<snowflake_connection, live, n_connects, n_calls, connection,
                   newconn, created_here, torn, last_store>>

\* A handler that reads the attribute without closing the connection.
except_noclose(t) ==
    /\ UNCHANGED mailvars
    /\ wpc[t] = "except_close"
    /\ IF snowflake_connection = NoAttr
       THEN /\ Finish(t, "AttributeError@39")
            /\ UNCHANGED torn
       ELSE /\ torn' = [torn EXCEPT ![t] = snowflake_connection]
            /\ wpc' = [wpc EXCEPT ![t] = "except_del"]
            /\ UNCHANGED <<outcome, prev_failed, all_ok>>
    /\ UNCHANGED <<snowflake_connection, live, n_connects, n_calls, connection,
                   newconn, caught, created_here, last_store>>

\* The handler: the print and `current_app.snowflake_connection.close()`.
\* Reading the attribute raises AttributeError when there is none, and that
\* exception leaves the handler in place of the one caught.
except_close(t) ==
    /\ UNCHANGED mailvars
    /\ wpc[t] = "except_close"
    /\ IF snowflake_connection = NoAttr
       THEN /\ Finish(t, "AttributeError@39")
            /\ UNCHANGED <<live, torn>>
       ELSE /\ live' = live \ {snowflake_connection}
            /\ torn' = [torn EXCEPT ![t] = snowflake_connection]
            /\ wpc' = [wpc EXCEPT ![t] = "except_del"]
            /\ UNCHANGED <<outcome, prev_failed, all_ok>>
    /\ UNCHANGED <<snowflake_connection, n_connects, n_calls, connection,
                   newconn, caught, created_here, last_store>>

\* A handler that re-raises but leaves the attribute in place.
except_reraise_only(t) ==
    /\ UNCHANGED mailvars
    /\ wpc[t] = "except_del"
    /\ Finish(t, caught[t])
    /\ UNCHANGED <<snowflake_connection, live, n_connects, n_calls, connection,
                   newconn, caught, created_here, torn, last_store>>

\* The handler: `delattr(current_app, 'snowflake_connection')` and the bare
\* `raise` of the exception caught; delattr raises AttributeError when the
\* attribute is gone by now.
except_del_and_raise(t) ==
    /\ UNCHANGED mailvars
    /\ wpc[t] = "except_del"
    /\ IF snowflake_connection = NoAttr
       THEN /\ Finish(t, "AttributeError@40")
            /\ UNCHANGED snowflake_connection
       ELSE /\ snowflake_connection' = NoAttr
            /\ Finish(t, caught[t])
    /\ UNCHANGED <<live, n_connects, n_calls, connection, newconn, caught,
                   created_here, torn, last_store>>

\* ------------------------------------------------- reading the provider log

\* The lines of a submitted message, as the provider decodes them.
Lines(message) == urlsafe_b64decode(message.raw)

\* The values of the header `name`, in order of appearance.
HeaderValues(message, name) ==
    LET hs == SelectSeq(Lines(message),
                        LAMBDA l : l[1] = "header" /\ l[2] = name)
    IN  [i \in 1..Len(hs) |-> hs[i][3]]

\* The attached parts, in order: <<maintype, subtype, payload>>.
PartsOf(message) ==
    LET ps == SelectSeq(Lines(message), LAMBDA l : l[1] = "part")
    IN  [i \in 1..Len(ps) |-> <<ps[i][2], ps[i][3], ps[i][4]>>]

\* The message carries recipient `to`, subject `subject` and HTML body `html`.
Carries(message, to, subject, html) ==
    /\ HeaderValues(message, "to") = <<to>>
    /\ HeaderValues(message, "subject") = <<subject>>
    /\ PartsOf(message) = <<<<"text", "html", html>>>>

HasBcc(message) == HeaderValues(message, "bcc") = <<BCC_ADDRESS>>

OneHtmlPart(message) ==
    /\ Len(PartsOf(message)) = 1
    /\ PartsOf(message)[1][1] = "text"
    /\ PartsOf(message)[1][2] = "html"

Sends == SelectSeq(gmail, LAMBDA e : e.op = "send")
Auths == SelectSeq(gmail, LAMBDA e : e.op = "authorize")

Dispatching == caller \in {"http", "direct"}

EqualLengths ==
    /\ Len(email_bodies) = Len(email_subjects)
    /\ Len(email_subjects) = Len(to_emails)

\* send_message has returned normally to its caller.
Returned ==
    /\ Dispatching
    /\ mpc \in {"respond", "done"}
    /\ exc = "none"
    /\ handler_exc = "none"

\* ------------------------------------------------------------------ claims

\* C1: when send_message returns (so no send failed) for argument sequences
\* of equal length N, the provider has received exactly N send calls, all
\* successful, the i-th carrying body[i], subject[i] and recipient[i];
\* duplicates are sent separately and N = 0 gives no send.
C1_SendsInOrder ==
    (Returned /\ EqualLengths) =>
        /\ Len(Sends) = Len(email_bodies)
        /\ \A i \in 1..Len(Sends) :
             /\ Sends[i].ok
             /\ Carries(Sends[i].body, to_emails[i], email_subjects[i],
                        email_bodies[i])

\* C1 witness: a batch of three with the same recipient first and last has
\* been sent in full.
C1_Witness ==
    /\ Returned
    /\ EqualLengths
    /\ Len(to_emails) = 3
    /\ to_emails[1] = to_emails[3]
    /\ Len(Sends) = 3

\* C2: a failed send is the last call ever issued for its batch: the sends
\* before it are positions 1..k-1, all successful and each issued once, none
\* is issued for a later position, and EmailSendError leaves send_message
\* (and the route, which then gives no response).
C2_FirstFailureAborts ==
    Dispatching =>
        /\ \A j \in 1..Len(gmail) : ~gmail[j].ok => j = Len(gmail)
        /\ \A k \in 1..Len(Sends) :
             ~Sends[k].ok =>
                /\ k = Len(Sends)
                /\ k <= Len(zip(email_bodies, email_subjects, to_emails))
                /\ \A i \in 1..(k - 1) : Sends[i].ok
                /\ \A i \in 1..k :
                     Carries(Sends[i].body, to_emails[i], email_subjects[i],
                             email_bodies[i])
                /\ exc = "EmailSendError"
                /\ mpc = "done"
                /\ caller = "http" =>
                     handler_exc = "EmailSendError" /\ response = NoResponse
        /\ exc = "EmailSendError" =>
             Len(Sends) >= 1 /\ ~Sends[Len(Sends)].ok

\* C2 witness: the second of three sends failed; the third was never tried.
C2_Witness ==
    /\ Dispatching
    /\ EqualLengths
    /\ Len(to_emails) = 3
    /\ Len(Sends) = 2
    /\ Sends[1].ok
    /\ ~Sends[2].ok
    /\ exc = "EmailSendError"

\* C6: a send_message call issues exactly one authorization, as its first
\* provider call and before any send, also for an empty batch; after a
\* failed authorization nothing else is issued and AuthorizationError
\* leaves the call.
C6_OneAuthorizationFirst ==
    Dispatching =>
        /\ mpc = "auth" => gmail = <<>>
        /\ (mpc \in {"loop", "respond"} \/
            (mpc = "done" /\ handler_exc # "KeyError")) =>
              /\ Len(Auths) = 1
              /\ gmail[1].op = "authorize"
        /\ Len(Sends) > 0 => (gmail[1].op = "authorize" /\ gmail[1].ok)
        /\ (Len(gmail) >= 1 /\ ~gmail[1].ok /\ gmail[1].op = "authorize") =>
              /\ Sends = <<>>
              /\ exc = "AuthorizationError"
              /\ mpc = "done"

\* C6 witness: an empty batch has been dispatched; the one provider call
\* made is the authorization.
C6_Witness ==
    /\ Returned
    /\ email_bodies = <<>> /\ email_subjects = <<>> /\ to_emails = <<>>
    /\ gmail = <<AuthEvent(TRUE)>>

\* C7: the route has produced a response only if it is the confirmation
\* with status 200, send_message has returned, and the provider received one
\* successful send per descriptor in array order; when an exception left the
\* dispatch it left the route too and there is no response.
C7_ConfirmationOnlyAfterAllSent ==
    /\ response # NoResponse =>
         /\ caller = "http"
         /\ response = [status |-> 200, body |-> CONFIRMATION]
         /\ Returned
         /\ Len(Sends) = Len(allEmailData)
         /\ \A i \in 1..Len(Sends) :
              /\ Sends[i].ok
              /\ Carries(Sends[i].body, allEmailData[i].USER_EMAIL,
                         allEmailData[i].emailSubject, allEmailData[i].emailHtml)
    /\ (caller = "http" /\ exc # "none") =>
         handler_exc = exc /\ response = NoResponse
    /\ handler_exc # "none" => response = NoResponse

\* C7 witness: the request [{"emailHtml":"<p>hi</p>","emailSubject":"Hi",
\* "USER_EMAIL":"a@x.com"}] has been answered with 200 after its one send.
C7_Witness ==
    /\ allEmailData = <<[emailHtml |-> "<p>hi</p>", emailSubject |-> "Hi",
                         USER_EMAIL |-> "a@x.com"]>>
    /\ response.status = 200
    /\ Len(Sends) = 1
    /\ Sends[1].ok

\* C8 as stated: every message submitted to the provider, by whichever send
\* path of the repository, carries the blind-copy address and exactly one
\* HTML part.
C8_EverySendPathHasBcc ==
    \A i \in 1..Len(Sends) :
        HasBcc(Sends[i].body) /\ OneHtmlPart(Sends[i].body)

\* C8 amended: every message submitted by send_message (so by POST
\* /send_emails) carries the blind-copy address as its only bcc header and
\* exactly one HTML part, whatever the subject and body; the message of the
\* standalone script carries exactly one HTML part and no bcc header.
C8_DispatcherHasBcc ==
    \A i \in 1..Len(Sends) :
        /\ OneHtmlPart(Sends[i].body)
        /\ Dispatching => HasBcc(Sends[i].body)
        /\ caller = "script" => HeaderValues(Sends[i].body, "bcc") = <<>>

\* C8 witness: a message with empty subject and empty body has been
\* submitted by send_message, with the blind-copy address.
C8_Witness ==
    /\ Dispatching
    /\ Len(Sends) >= 1
    /\ Carries(Sends[1].body, "a@x.com", "", "")
    /\ HasBcc(Sends[1].body)

\* The exception kinds a call can give its caller.
Raised(t) == outcome[t] \notin {"none", "ok"}

\* Positions at which a call holds a handle obtained from
\* get_snowflake_connection.
Using == {"execute", "fetch", "parse"}

\* C3: once a failed call has given its error to the caller, application
\* state holds no connection handle; and the call after a failed one, once
\* it holds a handle, holds one it created itself, the newest, still open.
C3_ClearedThenRecreated ==
    /\ (wpc[1] = "idle" /\ Raised(1)) => snowflake_connection = NoAttr
    /\ (prev_failed /\ wpc[1] \in Using) =>
         /\ created_here[1]
         /\ connection[1] = n_connects
         /\ connection[1] \in live

\* C3 witness: after a call that failed on an existing connection, the next
\* call is executing on a second, newly created handle.
C3_Witness ==
    /\ prev_failed
    /\ wpc[1] = "execute"
    /\ created_here[1]
    /\ n_connects = 2
    /\ connection[1] = 2
    /\ 1 \notin live

\* C4 as stated: whenever a call has raised to its caller, the error is the
\* one first caught in process_snowflake_query, and the handle is gone.
C4_OriginalErrorReraised ==
    \A t \in Threads :
        (wpc[t] = "idle" /\ Raised(t)) =>
            outcome[t] = caught[t] /\ snowflake_connection = NoAttr

\* C5: with calls handled one at a time, at most one connection is open,
\* and, outside the assignment that records a new one, an open connection
\* is the handle in application state.
C5_AtMostOneLiveAndRecorded ==
    /\ Cardinality(live) <= 1
    /\ wpc[1] # "store" => \A h \in live : snowflake_connection = h

\* C5 witness: after a failure and a reconnect, one connection is open and
\* recorded, with an earlier one closed.
C5_Witness ==
    /\ wpc[1] = "idle"
    /\ n_connects = 2
    /\ live = {2}
    /\ snowflake_connection = 2

\* C9: while every completed call has succeeded, at most one connection
\* has been created, by the first call; each call holds that handle, and a
\* successful call leaves it open and recorded.
C9_CreatedOnceAndKept ==
    all_ok =>
        /\ n_connects <= 1
        /\ created_here[1] => n_calls = 1
        /\ wpc[1] \in Using =>
             /\ connection[1] = 1
             /\ snowflake_connection = 1
             /\ n_connects = 1
        /\ (wpc[1] = "idle" /\ outcome[1] = "ok") =>
             /\ snowflake_connection = 1
             /\ live = {1}
             /\ n_connects = 1

\* C9 witness: three calls in a row have succeeded on the one connection.
C9_Witness ==
    /\ all_ok
    /\ n_calls = 3
    /\ wpc[1] = "idle"
    /\ outcome[1] = "ok"
    /\ n_connects = 1
    /\ live = {1}

\* C10: with two concurrent calls, (a) when the first two calls of a process
\* both found no handle and both have recorded the connection they
\* created, two distinct connections are open,
\* application state holds the one recorded last, and the one recorded
\* first is open but no longer recorded; (b) when one call's teardown has
\* closed the handle the other call holds, the other call is left with a
\* closed connection, and once that teardown has re-raised, application
\* state holds no handle at all.
C10_RaceOnSharedConnection ==
    \A t, u \in Threads :
        t # u =>
            /\ (n_calls = 2 /\ wpc[t] = "load" /\ wpc[u] = "load"
                  /\ created_here[t] /\ created_here[u] /\ last_store = u) =>
                 /\ newconn[t] # newconn[u]
                 /\ live = {newconn[t], newconn[u]}
                 /\ snowflake_connection = newconn[u]
            /\ (wpc[t] \in Using /\ torn[u] # NoAttr
                  /\ torn[u] = connection[t]) =>
                 /\ connection[t] \notin live
                 /\ (wpc[u] = "idle" /\ outcome[u] = caught[u]) =>
                      snowflake_connection = NoAttr

\* C10 witness: of two concurrent calls on a fresh process, both created a
\* connection; the first recorded is still open and unrecorded, and the
\* other was closed and removed by one call's teardown while the second
\* call is about to execute on it.
C10_Witness ==
    \E t, u \in Threads :
        /\ t # u
        /\ n_calls = 2
        /\ created_here[t] /\ created_here[u]
        /\ wpc[t] = "execute"
        /\ connection[t] = newconn[t]
        /\ torn[u] = connection[t]
        /\ connection[t] \notin live
        /\ newconn[u] \in live
        /\ snowflake_connection = NoAttr

\* -------------------------------------------------------- specifications

MailNext ==
    \/ send_emails
    \/ send_message_call
    \/ authorize
    \/ send_next
    \/ send_message_return
    \/ send_emails_respond
    \/ script_main
    \/ script_authorize
    \/ script_send
    \/ next_invocation

SpecMail == Init /\ [][MailNext]_vars

\* Calls of process_snowflake_query handled one at a time.
QueryNext ==
    \/ process_snowflake_query(1)
    \/ hasattr_check(1)
    \/ connect(1)
    \/ store(1)
    \/ load(1)
    \/ execute(1)
    \/ fetch(1)
    \/ parse_and_return(1)
    \/ except_close(1)
    \/ except_del_and_raise(1)

SpecQuery == Init /\ [][QueryNext]_vars

\* Two threads of one process, each handling calls, interleaved statement
\* by statement.
ConcNext ==
    \E t \in Threads :
        \/ process_snowflake_query(t)
        \/ hasattr_check(t)
        \/ connect(t)
        \/ store(t)
        \/ load(t)
        \/ execute(t)
        \/ fetch(t)
        \/ parse_and_return(t)
        \/ except_close(t)
        \/ except_del_and_raise(t)

SpecConc == Init /\ [][ConcNext]_vars

====
